---------------------------- MODULE Spec2Model ----------------------------
(***************************************************************************)
(* Password and token authentication of packages-next/auth: the            *)
(* attemptAuthentication / updateAuthToken helpers of                      *)
(* getExtendGraphQLSchema and the resolvers built on them.                 *)
(*                                                                         *)
(* Optional values (undefined / null in the source) are sequences of       *)
(* length at most one: <<>> is "unset", <<v>> is the value v.              *)
(***************************************************************************)
EXTENDS Integers, Sequences, FiniteSets, TLC

VARIABLES cfg, store, now, req

vars == <<cfg, store, now, req>>

Unset == <<>>
Some(v) == <<v>>

(***************************************************************************)
(* Bounds of the model.                                                    *)
(***************************************************************************)
\* the clock runs over 0..MaxTime (minutes)
MaxTime == 2
\* the validity window the deployment configures (tokensValidForMins)
ValidForMins == 1

\* request slots; the sequential specifications use FirstReq only
Reqs == {"r1", "r2"}
FirstReq == {"r1"}

\* values a request may carry in its arguments
Identities == {"a", "b", "c", "z"}
TokenIdentities == {"a", "c", "z"}
Plaintexts == {"correct", "wrong"}
ListKeys == {"User", "Person"}
TokenTypes == {"passwordReset", "magicAuth"}
\* the byte values randomBytes is sampled at (every byte of a draw the same)
ByteSamples == {0, 251}

\* names the schema is configured with
identityField == "email"
secretField == "password"

(***************************************************************************)
(* enum AuthErrorCode: a numeric TypeScript enum, members numbered from 0, *)
(* with the reverse mapping AuthErrorCode[n] giving the member's name.     *)
(***************************************************************************)
PASSWORD_AUTH_FAILURE == 0
PASSWORD_AUTH_IDENTITY_NOT_FOUND == 1
PASSWORD_AUTH_SECRET_NOT_SET == 2
PASSWORD_AUTH_MULTIPLE_IDENTITY_MATCHES == 3
PASSWORD_AUTH_SECRET_MISMATCH == 4
AUTH_TOKEN_REQUEST_IDENTITY_NOT_FOUND == 5
AUTH_TOKEN_REQUEST_MULTIPLE_IDENTITY_MATCHES == 6
AUTH_TOKEN_REDEMPTION_INVALID_TOKEN == 7
AUTH_TOKEN_REDEMPTION_TOKEN_EXPIRED == 8
AUTH_TOKEN_REDEMPTION_TOKEN_REDEEMED == 9
AUTH_TOKEN_INTERNAL_ERROR == 10
CUSTOM_ERROR == 11

AuthErrorCode ==
  <<"PASSWORD_AUTH_FAILURE",
    "PASSWORD_AUTH_IDENTITY_NOT_FOUND",
    "PASSWORD_AUTH_SECRET_NOT_SET",
    "PASSWORD_AUTH_MULTIPLE_IDENTITY_MATCHES",
    "PASSWORD_AUTH_SECRET_MISMATCH",
    "AUTH_TOKEN_REQUEST_IDENTITY_NOT_FOUND",
    "AUTH_TOKEN_REQUEST_MULTIPLE_IDENTITY_MATCHES",
    "AUTH_TOKEN_REDEMPTION_INVALID_TOKEN",
    "AUTH_TOKEN_REDEMPTION_TOKEN_EXPIRED",
    "AUTH_TOKEN_REDEMPTION_TOKEN_REDEEMED",
    "AUTH_TOKEN_INTERNAL_ERROR",
    "CUSTOM_ERROR">>

\* AuthErrorCode[code]: the enum's reverse mapping (ordinals start at 0)
CodeName(code) == AuthErrorCode[code + 1]

\* JavaScript truthiness of an optional enum value: undefined and 0 are falsy
Truthy(optCode) == optCode # Unset /\ optCode[1] # 0

(***************************************************************************)
(* getErrorMessage: the message of a code, as the list of its pieces.      *)
(***************************************************************************)
getErrorMessage(idField, secField, itemSingular, itemPlural, code) ==
  CASE code = PASSWORD_AUTH_FAILURE -> <<"Authentication failed">>
    [] code = PASSWORD_AUTH_IDENTITY_NOT_FOUND ->
         <<"The ", idField, " value provided didn't identify any ", itemPlural>>
    [] code = PASSWORD_AUTH_SECRET_NOT_SET ->
         <<"The ", itemSingular, " identified has no ", secField,
           " set so can not be authenticated">>
    [] code = PASSWORD_AUTH_MULTIPLE_IDENTITY_MATCHES ->
         <<"The ", idField, " value provided identified more than one ", itemSingular>>
    [] code = PASSWORD_AUTH_SECRET_MISMATCH ->
         <<"The ", secField, " provided is incorrect">>
    [] code = AUTH_TOKEN_REQUEST_IDENTITY_NOT_FOUND ->
         <<"The ", idField, " value provided didn't identify any ", itemPlural>>
    [] code = AUTH_TOKEN_REQUEST_MULTIPLE_IDENTITY_MATCHES ->
         <<"The ", idField, " value provided identified more than one ", itemSingular>>
    [] code = AUTH_TOKEN_REDEMPTION_INVALID_TOKEN -> <<"The token provided is invalid">>
    [] code = AUTH_TOKEN_REDEMPTION_TOKEN_EXPIRED -> <<"The token provided has expired">>
    [] code = AUTH_TOKEN_REDEMPTION_TOKEN_REDEEMED ->
         <<"The token provided has already been redeemed">>
    [] code = AUTH_TOKEN_INTERNAL_ERROR ->
         <<"An unexpected error condition was encountered while creating or redeeming an auth token">>
    [] OTHER -> <<"No error message defined">>

(***************************************************************************)
(* generateToken: randomBytes(length).toString('base64').slice(0, length)  *)
(* .replace(/[^a-zA-Z0-9]/g, '').  A base64 character is its index in the  *)
(* alphabet A-Z a-z 0-9 + / (0..63), and 64 stands for the padding '='.    *)
(***************************************************************************)
Pad == 64

ByteAt(bytes, j) == IF j <= Len(bytes) THEN bytes[j] ELSE 0

\* the k-th (from 0) six-bit group of the byte string
Sextet(bytes, k) ==
  LET j == ((6 * k) \div 8) + 1
      off == (6 * k) % 8
  IN  CASE off = 0 -> ByteAt(bytes, j) \div 4
        [] off = 6 -> (ByteAt(bytes, j) % 4) * 16 + (ByteAt(bytes, j + 1) \div 16)
        [] off = 4 -> (ByteAt(bytes, j) % 16) * 4 + (ByteAt(bytes, j + 1) \div 64)
        [] off = 2 -> ByteAt(bytes, j) % 64

\* Buffer.toString('base64'): 4 characters per 3 bytes, padded with '='
Base64(bytes) ==
  LET n == Len(bytes)
      chars == (8 * n + 5) \div 6
      total == 4 * ((n + 2) \div 3)
  IN  [i \in 1..total |-> IF i <= chars THEN Sextet(bytes, i - 1) ELSE Pad]

\* String.slice(0, length)
Slice(s, length) == SubSeq(s, 1, IF length < Len(s) THEN length ELSE Len(s))

\* /[a-zA-Z0-9]/ on a base64 character
IsAlphanumeric(c) == c <= 61

\* generateToken without the slice to the requested length
generateToken_NoSlice(bytes, length) == SelectSeq(Base64(bytes), IsAlphanumeric)

generateToken(bytes, length) == SelectSeq(Slice(Base64(bytes), length), IsAlphanumeric)

\* the length updateAuthToken asks for
TokenLength == 20

\* crypto.randomBytes(length), sampled
randomBytes(length) == { [i \in 1..length |-> b] : b \in ByteSamples }


(***************************************************************************)
(* The secret field: generateHash(plaintext) and compare(plaintext, hash). *)
(* A hash remembers the plaintext it was made of; the salt is left out.    *)
(***************************************************************************)
generateHash(plaintext) == [hashOf |-> plaintext]

\* the stored value may be unset; no plaintext compares equal to that
compare(plaintext, stored) == stored = Some(generateHash(plaintext))

(***************************************************************************)
(* Storage: each list is its rows in storage order.  A row has an id, the  *)
(* identity field, the optional secret field and, per token type T, the    *)
(* fields TToken, TIssuedAt and TRedeemedAt (tokens[T].Token, ...).        *)
(***************************************************************************)
\* Date.prototype.toISOString and its parse, on the model's clock
toISOString(t) == <<"ISO", t>>
parseISO(s) == s[2]

NoToken == [Token |-> Unset, IssuedAt |-> Unset, RedeemedAt |-> Unset]

Row(kind, n, identity, secret) ==
  [id |-> [t |-> kind, v |-> n], identity |-> identity, secret |-> secret,
   tokens |-> [T \in TokenTypes |-> NoToken]]

\* the rows the lists hold when the server starts; kind is the adapter's id type
InitStore(kind) ==
  [k \in ListKeys |->
     IF k = "User"
     THEN << Row(kind, 1, "a", Some(generateHash("correct"))),
             Row(kind, 2, "b", Unset),
             Row(kind, 3, "c", Some(generateHash("correct"))),
             Row(kind, 4, "c", Unset) >>
     ELSE << Row(kind, 1, "a", Some(generateHash("correct"))),
             Row(kind, 5, "c", Some(generateHash("wrong"))) >>]

\* list.adapter.find({ [identityField]: identity })
find(rows, identity) ==
  LET Matches(r) == r.identity = identity
  IN  SelectSeq(rows, Matches)

\* list.adapter.find({ id })
findById(rows, id) ==
  LET Matches(r) == r.id = id
  IN  SelectSeq(rows, Matches)

\* the labels of a list (list.adminUILabels)
Singular(listKey) == listKey
Plural(listKey) == IF listKey = "User" THEN "Users" ELSE "People"

(***************************************************************************)
(* Configuration captured by getExtendGraphQLSchema.  links tells whether  *)
(* passwordResetLink and magicAuthLink are configured (each with its own   *)
(* sendToken); without it passwordResetLink is undefined and magicAuthLink *)
(* takes the default { sendToken: () => {} }.                              *)
(***************************************************************************)
Configs ==
  [listKey : ListKeys, protectIdentities : BOOLEAN, links : BOOLEAN]

ItemAuthenticationWithPasswordSuccess == "ItemAuthenticationWithPasswordSuccess"
ItemAuthenticationWithPasswordFailure == "ItemAuthenticationWithPasswordFailure"

(***************************************************************************)
(* A request: the position of one running resolver and what it holds.      *)
(*   op       the mutation ("authenticate", "sendLink", "redeem")          *)
(*   pc       the await it is suspended at, or "idle" / "done"             *)
(*   result   what attemptAuthentication / updateAuthToken returned        *)
(*   payload  what the resolver returned; raised when it threw instead     *)
(*   hashes, compares, writes, sent, sessions: the calls it made to the    *)
(*   secret field, the write path, the delivery callback and startSession  *)
(*   session  ctx.session of an authenticatedItem query                     *)
(*   bytes    the random bytes drawn by a call of generateToken             *)
(***************************************************************************)
IdleReq ==
  [op |-> "none", pc |-> "idle", tokenType |-> "none", identity |-> "none",
   secret |-> "none", items |-> <<>>, token |-> Unset, at |-> 0,
   result |-> Unset, payload |-> Unset, raised |-> FALSE,
   hashes |-> 0, compares |-> 0, writes |-> <<>>, sent |-> <<>>, sessions |-> <<>>,
   session |-> Unset, bytes |-> <<>>]

Free(p) == req[p].pc \in {"idle", "done"}

AttemptFailureResult(code) ==
  [success |-> FALSE, code |-> Some(code), item |-> Unset, itemId |-> Unset, token |-> Unset]

AttemptSuccessResult(item) ==
  [success |-> TRUE, code |-> Unset, item |-> Some(item), itemId |-> Unset, token |-> Unset]

TokenFailureResult(optCode) ==
  [success |-> FALSE, code |-> optCode, item |-> Unset, itemId |-> Unset, token |-> Unset]

TokenSuccessResult(itemId, token) ==
  [success |-> TRUE, code |-> Unset, item |-> Unset, itemId |-> Some(itemId), token |-> Some(token)]

\* the objects the resolvers return
FailurePayload(typename, code) ==
  [typename |-> typename, code |-> Some(CodeName(code)),
   message |-> Some(getErrorMessage(identityField, secretField,
                      Singular(cfg.listKey), Plural(cfg.listKey), code)),
   token |-> Unset, item |-> Unset]

EmptyPayload ==
  [typename |-> Unset, code |-> Unset, message |-> Unset, token |-> Unset, item |-> Unset]


(***************************************************************************)
(* attemptAuthentication and the authenticateItemWithPassword resolver.    *)
(***************************************************************************)
\* AuthSpecificCode counting "more than one" from three
AuthSpecificCode_FromThree(items) ==
  IF Len(items) = 0 THEN Some(PASSWORD_AUTH_IDENTITY_NOT_FOUND)
  ELSE IF Len(items) = 1 /\ items[1].secret = Unset THEN Some(PASSWORD_AUTH_SECRET_NOT_SET)
  ELSE IF Len(items) > 2 THEN Some(PASSWORD_AUTH_MULTIPLE_IDENTITY_MATCHES)
  ELSE Unset

\* AuthSpecificCode without the test of the secret field
AuthSpecificCode_NoSecretTest(items) ==
  IF Len(items) = 0 THEN Some(PASSWORD_AUTH_IDENTITY_NOT_FOUND)
  ELSE IF Len(items) > 1 THEN Some(PASSWORD_AUTH_MULTIPLE_IDENTITY_MATCHES)
  ELSE Unset

\* the classification of the lookup ("Identity failures with helpful errors")
AuthSpecificCode(items) ==
  IF Len(items) = 0 THEN Some(PASSWORD_AUTH_IDENTITY_NOT_FOUND)
  ELSE IF Len(items) = 1 /\ items[1].secret = Unset THEN Some(PASSWORD_AUTH_SECRET_NOT_SET)
  ELSE IF Len(items) > 1 THEN Some(PASSWORD_AUTH_MULTIPLE_IDENTITY_MATCHES)
  ELSE Unset

\* AuthReportedCode always reporting the generic code
AuthReportedCode_Generic(specificCode) == PASSWORD_AUTH_FAILURE

\* protectIdentities ? AuthErrorCode.PASSWORD_AUTH_FAILURE : specificCode
AuthReportedCode(specificCode) ==
  IF cfg.protectIdentities THEN PASSWORD_AUTH_FAILURE ELSE specificCode

\* the resolver's return for a failed attempt
AuthFailurePayload(result) ==
  FailurePayload(Some(ItemAuthenticationWithPasswordFailure), result.code[1])

\* the resolver's return once the session has been started
AuthSuccessPayload(sessionToken, result) ==
  [typename |-> Some(ItemAuthenticationWithPasswordSuccess), code |-> Unset,
   message |-> Unset, token |-> Some(sessionToken), item |-> result.item]

\* the arguments the resolver gives ctx.startSession
SessionArgs(result) == [listKey |-> "User", itemId |-> result.item[1].id]

\* ctx.startSession: the host's session token for a list key and an item id
startSession(args) == <<"session", args.listKey, args.itemId>>

\* the request ends with attemptAuthentication returning a failure
AuthFail(p, r, code) ==
  LET result == AttemptFailureResult(code)
  IN  req' = [req EXCEPT ![p] =
                [r EXCEPT !.pc = "done", !.result = Some(result),
                          !.payload = Some(AuthFailurePayload(result))]]

\* AuthLookup returning an identity failure without the simulated hash
AuthLookup_NoDummyHash(p, identity, secret, answered) ==
  /\ Free(p)
  /\ LET r0 == [IdleReq EXCEPT !.op = "authenticate", !.identity = identity,
                               !.secret = secret]
     IN  IF ~answered
         THEN req' = [req EXCEPT ![p] = [r0 EXCEPT !.pc = "done", !.raised = TRUE]]
         ELSE LET items == find(store[cfg.listKey], identity)
                  r == [r0 EXCEPT !.items = items]
                  specificCode == AuthSpecificCode(items)
              IN  IF specificCode # Unset
                  THEN AuthFail(p, r, AuthReportedCode(specificCode[1]))
                  ELSE req' = [req EXCEPT ![p] = [r EXCEPT !.pc = "compare"]]
  /\ UNCHANGED <<cfg, store, now>>

\* a request arrives and its lookup completes: the part of
\* attemptAuthentication up to the await of generateHash or of compare
AuthLookup(p, identity, secret, answered) ==
  /\ Free(p)
  /\ LET r0 == [IdleReq EXCEPT !.op = "authenticate", !.identity = identity,
                               !.secret = secret]
     IN  IF ~answered
         THEN \* list.adapter.find rejected: the resolver rejects with it
              req' = [req EXCEPT ![p] = [r0 EXCEPT !.pc = "done", !.raised = TRUE]]
         ELSE LET items == find(store[cfg.listKey], identity)
                  r == [r0 EXCEPT !.items = items]
                  specificCode == AuthSpecificCode(items)
              IN  IF specificCode # Unset
                  THEN IF cfg.protectIdentities
                       THEN req' = [req EXCEPT ![p] = [r EXCEPT !.pc = "hash"]]
                       ELSE AuthFail(p, r, AuthReportedCode(specificCode[1]))
                  ELSE req' = [req EXCEPT ![p] = [r EXCEPT !.pc = "compare"]]
  /\ UNCHANGED <<cfg, store, now>>

\* generateHash('simulated-password-to-counter-timing-attack') completes
AuthHash(p) ==
  /\ req[p].op = "authenticate" /\ req[p].pc = "hash"
  /\ LET r == [req[p] EXCEPT !.hashes = @ + 1]
     IN  AuthFail(p, r, AuthReportedCode(AuthSpecificCode(r.items)[1]))
  /\ UNCHANGED <<cfg, store, now>>

\* AuthAfterCompare with the test of isMatch inverted
AuthAfterCompare_Inverted(item, isMatch) ==
  IF isMatch
  THEN AttemptFailureResult(PASSWORD_AUTH_SECRET_MISMATCH)
  ELSE AttemptSuccessResult(item)

\* what attemptAuthentication returns once the comparison is known
AuthAfterCompare(item, isMatch) ==
  IF ~isMatch
  THEN AttemptFailureResult(AuthReportedCode(PASSWORD_AUTH_SECRET_MISMATCH))
  ELSE AttemptSuccessResult(item)

\* secretFieldInstance.compare completes
AuthCompare(p) ==
  /\ req[p].op = "authenticate" /\ req[p].pc = "compare"
  /\ LET item == req[p].items[1]
         isMatch == compare(req[p].secret, item.secret)
         r == [req[p] EXCEPT !.compares = @ + 1]
         result == AuthAfterCompare(item, isMatch)
     IN  IF ~result.success
         THEN req' = [req EXCEPT ![p] =
                        [r EXCEPT !.pc = "done", !.result = Some(result),
                                  !.payload = Some(AuthFailurePayload(result))]]
         ELSE req' = [req EXCEPT ![p] = [r EXCEPT !.pc = "session", !.result = Some(result)]]
  /\ UNCHANGED <<cfg, store, now>>

\* ctx.startSession completes and the resolver returns the Success payload
AuthSession(p) ==
  /\ req[p].op = "authenticate" /\ req[p].pc = "session"
  /\ LET result == req[p].result[1]
         args == SessionArgs(result)
     IN  req' = [req EXCEPT ![p] =
                   [@ EXCEPT !.pc = "done", !.sessions = Append(@, args),
                             !.payload = Some(AuthSuccessPayload(startSession(args), result))]]
  /\ UNCHANGED <<cfg, store, now>>

InitAuth ==
  /\ cfg \in Configs
  /\ store \in {InitStore("string"), InitStore("number")}
  /\ now = 0
  /\ req = [p \in Reqs |-> IdleReq]

NextAuth ==
  \E p \in FirstReq :
    \/ \E identity \in Identities, secret \in Plaintexts, answered \in BOOLEAN :
         AuthLookup(p, identity, secret, answered)
    \/ AuthHash(p)
    \/ AuthCompare(p)
    \/ AuthSession(p)

SpecAuth == InitAuth /\ [][NextAuth]_vars

(***************************************************************************)
(* The authenticatedItem query.  ctx.session is the session the host       *)
(* restored for the request: none, or one that startSession was given by   *)
(* an earlier authenticate of the same client.                             *)
(***************************************************************************)
\* typeof ctx.session?.itemId === 'string' && typeof ctx.session.listKey === 'string'
HasStringSession(session) == session # Unset /\ session[1].itemId.t = "string"

\* { ...item, __typename: ctx.session.listKey }
ItemPayload(item, listKey) ==
  [typename |-> Some(listKey), code |-> Unset, message |-> Unset, token |-> Unset,
   item |-> Some(item)]

\* null, in the shape of the other payloads
NullItem == EmptyPayload

\* what authenticatedItem returns for a session once the lookup answered
authenticatedItem(session, st) ==
  IF HasStringSession(session)
  THEN LET items == findById(st[session[1].listKey], session[1].itemId)
       IN  IF items = <<>> THEN NullItem
           ELSE ItemPayload(items[1], session[1].listKey)
  ELSE NullItem

\* the sessions the client of slot p can present: none, or the one it holds
ClientSessions(p) ==
  {Unset} \cup { Some(req[p].sessions[i]) : i \in DOMAIN req[p].sessions }
          \cup { req[p].session }

\* the query runs to its end; answered = FALSE when adapter.find rejects
AuthenticatedItem(p, session, answered) ==
  /\ Free(p)
  /\ session \in ClientSessions(p)
  /\ LET r == [IdleReq EXCEPT !.op = "authenticatedItem", !.pc = "done",
                              !.session = session]
     IN  IF HasStringSession(session) /\ ~answered
         THEN req' = [req EXCEPT ![p] = [r EXCEPT !.raised = TRUE]]
         ELSE req' = [req EXCEPT ![p] =
                        [r EXCEPT !.payload = Some(authenticatedItem(session, store))]]
  /\ UNCHANGED <<cfg, store, now>>

Sessions ==
  [listKey : ListKeys, itemId : { [t |-> k, v |-> n] : k \in {"string", "number"}, n \in 1..5 }]

NextSession ==
  \/ NextAuth
  \/ \E p \in FirstReq, session \in {Unset} \cup { Some(s) : s \in Sessions },
        answered \in BOOLEAN :
       AuthenticatedItem(p, session, answered)

SpecSession == InitAuth /\ [][NextSession]_vars


(***************************************************************************)
(* updateAuthToken and the sendItemPasswordResetLink /                     *)
(* sendItemMagicAuthLink resolvers.                                        *)
(***************************************************************************)
\* "Identity failures with helpful errors" of updateAuthToken
TokenSpecificCode(items) ==
  IF Len(items) = 0 THEN Some(AUTH_TOKEN_REQUEST_IDENTITY_NOT_FOUND)
  ELSE IF Len(items) > 1 THEN Some(AUTH_TOKEN_REQUEST_MULTIPLE_IDENTITY_MATCHES)
  ELSE Unset

\* TokenReportedCode without the test of protectIdentities
TokenReportedCode_Always(specificCode) == Some(specificCode)

\* protectIdentities ? undefined : specificCode
TokenReportedCode(specificCode) ==
  IF cfg.protectIdentities THEN Unset ELSE Some(specificCode)

\* the list the token mutation of updateAuthToken updates: updateUser
TokenWriteList == "User"

\* the data of the mutation: TToken, TIssuedAt, TRedeemedAt
TokenData(token, at) ==
  [Token |-> Some(token), IssuedAt |-> Some(toISOString(at)), RedeemedAt |-> Unset]

\* updateUser(id: $id, data: { TToken, TIssuedAt, TRedeemedAt: null })
updateToken(st, id, tokenType, token, at) ==
  [st EXCEPT ![TokenWriteList] =
     [i \in DOMAIN @ |->
        IF @[i].id = id
        THEN [@[i] EXCEPT !.tokens[tokenType] = TokenData(token, at)]
        ELSE @[i]]]

\* the mutation has an item to update
CanUpdate(st, id) == Len(findById(st[TokenWriteList], id)) > 0

\* TokenAfterWrite without the test of errors
TokenAfterWrite_IgnoreErrors(hasErrors, itemId, token) == TokenSuccessResult(itemId, token)

\* TokenAfterWrite hiding the errors of the write when identities are protected
TokenAfterWrite_ProtectHidesErrors(hasErrors, itemId, token) ==
  IF hasErrors /\ ~cfg.protectIdentities
  THEN TokenFailureResult(Some(AUTH_TOKEN_INTERNAL_ERROR))
  ELSE TokenSuccessResult(itemId, token)

\* what updateAuthToken returns once the mutation's errors are known
TokenAfterWrite(hasErrors, itemId, token) ==
  IF hasErrors
  THEN TokenFailureResult(Some(AUTH_TOKEN_INTERNAL_ERROR))
  ELSE TokenSuccessResult(itemId, token)

\* the resolver's return: { code, message } for a failure with a code, else {}
SendPayload(result) ==
  IF ~result.success /\ Truthy(result.code)
  THEN FailurePayload(Unset, result.code[1])
  ELSE EmptyPayload

\* whether the resolver of this token type has a sendToken to call:
\* passwordResetLink?.sendToken, and sendMagicAuthLink with its default
HasSendToken(tokenType) == tokenType = "magicAuth" \/ cfg.links

\* the sendToken in use is one the configuration supplied, which may reject
SendTokenMayReject(tokenType) == cfg.links

\* SendTokenCalls without the test of result.success
SendTokenCalls_Unconditional(tokenType, identity, result) ==
  IF HasSendToken(tokenType)
  THEN << [itemId |-> result.itemId, identity |-> identity, token |-> result.token] >>
  ELSE << >>

\* the calls the resolver makes to sendToken after updateAuthToken returned
SendTokenCalls(tokenType, identity, result) ==
  IF result.success /\ HasSendToken(tokenType)
  THEN << [itemId |-> result.itemId[1], identity |-> identity, token |-> result.token[1]] >>
  ELSE << >>

\* SendLookup answering a rejected lookup with AUTH_TOKEN_INTERNAL_ERROR
SendLookup_WrapsLookupError(p, tokenType, identity, answered, bytes) ==
  /\ Free(p)
  /\ LET r0 == [IdleReq EXCEPT !.op = "sendLink", !.tokenType = tokenType,
                               !.identity = identity]
     IN  IF ~answered
         THEN LET result == TokenFailureResult(Some(AUTH_TOKEN_INTERNAL_ERROR))
              IN  req' = [req EXCEPT ![p] =
                            [r0 EXCEPT !.pc = "done", !.result = Some(result),
                                       !.payload = Some(SendPayload(result))]]
         ELSE LET items == find(store[cfg.listKey], identity)
                  specificCode == TokenSpecificCode(items)
                  r == [r0 EXCEPT !.items = items]
              IN  IF specificCode # Unset
                  THEN LET result == TokenFailureResult(TokenReportedCode(specificCode[1]))
                       IN  req' = [req EXCEPT ![p] =
                                     [r EXCEPT !.pc = "done", !.result = Some(result),
                                               !.sent = SendTokenCalls(tokenType, identity, result),
                                               !.payload = Some(SendPayload(result))]]
                  ELSE req' = [req EXCEPT ![p] =
                                 [r EXCEPT !.pc = "write",
                                           !.token = Some(generateToken(bytes, TokenLength)),
                                           !.at = now]]
  /\ UNCHANGED <<cfg, store, now>>

\* a request arrives and its lookup completes: updateAuthToken up to the
\* await of the mutation (the token and the time are fixed at the call)
SendLookup(p, tokenType, identity, answered, bytes) ==
  /\ Free(p)
  /\ LET r0 == [IdleReq EXCEPT !.op = "sendLink", !.tokenType = tokenType,
                               !.identity = identity]
     IN  IF ~answered
         THEN req' = [req EXCEPT ![p] = [r0 EXCEPT !.pc = "done", !.raised = TRUE]]
         ELSE LET items == find(store[cfg.listKey], identity)
                  specificCode == TokenSpecificCode(items)
                  r == [r0 EXCEPT !.items = items]
              IN  IF specificCode # Unset
                  THEN LET result == TokenFailureResult(TokenReportedCode(specificCode[1]))
                       IN  req' = [req EXCEPT ![p] =
                                     [r EXCEPT !.pc = "done", !.result = Some(result),
                                               !.sent = SendTokenCalls(tokenType, identity, result),
                                               !.payload = Some(SendPayload(result))]]
                  ELSE req' = [req EXCEPT ![p] =
                                 [r EXCEPT !.pc = "write",
                                           !.token = Some(generateToken(bytes, TokenLength)),
                                           !.at = now]]
  /\ UNCHANGED <<cfg, store, now>>

\* the mutation completes, with errors or without; updateAuthToken returns
\* and, on success, the resolver calls sendToken
SendWrite(p, errors) ==
  /\ req[p].op = "sendLink" /\ req[p].pc = "write"
  /\ LET r == req[p]
         item == r.items[1]
         token == r.token[1]
         hasErrors == errors \/ ~CanUpdate(store, item.id)
         result == TokenAfterWrite(hasErrors, item.id, token)
         write == [list |-> TokenWriteList, id |-> item.id, tokenType |-> r.tokenType,
                   token |-> token, at |-> r.at, ok |-> ~hasErrors]
         calls == SendTokenCalls(r.tokenType, r.identity, result)
     IN  /\ store' = IF hasErrors THEN store
                     ELSE updateToken(store, item.id, r.tokenType, token, r.at)
         /\ req' = [req EXCEPT ![p] =
                      IF result.success
                      THEN [r EXCEPT !.pc = "send", !.result = Some(result),
                                     !.writes = Append(@, write), !.sent = calls]
                      ELSE [r EXCEPT !.pc = "done", !.result = Some(result),
                                     !.writes = Append(@, write), !.sent = calls,
                                     !.payload = Some(SendPayload(result))]]
  /\ UNCHANGED <<cfg, now>>

\* the awaited sendToken settles and the resolver returns, or rejects with it
SendDeliver(p, rejected) ==
  /\ req[p].op = "sendLink" /\ req[p].pc = "send"
  /\ rejected => (req[p].sent # << >> /\ SendTokenMayReject(req[p].tokenType))
  /\ req' = [req EXCEPT ![p] =
               IF rejected
               THEN [@ EXCEPT !.pc = "done", !.raised = TRUE]
               ELSE [@ EXCEPT !.pc = "done",
                              !.payload = Some(SendPayload(req[p].result[1]))]]
  /\ UNCHANGED <<cfg, store, now>>

\* time passes
Tick ==
  /\ now < MaxTime
  /\ now' = now + 1
  /\ UNCHANGED <<cfg, store, req>>

(***************************************************************************)
(* Redemption of a token.  The source declares its error codes, their      *)
(* messages and tokensValidForMins but holds no code for it; it is         *)
(* modelled from the specification: a token is valid iff it matches the    *)
(* stored value, RedeemedAt is unset and now - IssuedAt is at most         *)
(* tokensValidForMins; a valid token's redemption sets RedeemedAt to now.  *)
(* Where a matching token is both redeemed and expired the specification   *)
(* names both codes and gives neither precedence: either may be returned.  *)
(***************************************************************************)
Age(fields, t) == t - parseISO(fields.IssuedAt[1])

\* RedemptionOutcomes without the validity window
RedemptionOutcomes_NoWindow(fields, token, t) ==
  IF fields.Token # Some(token)
  THEN { Some(AUTH_TOKEN_REDEMPTION_INVALID_TOKEN) }
  ELSE IF fields.RedeemedAt = Unset THEN { Unset }
       ELSE { Some(AUTH_TOKEN_REDEMPTION_TOKEN_REDEEMED) }

\* the outcomes a redemption may have: Unset (accepted) or a code
RedemptionOutcomes(fields, token, t) ==
  IF fields.Token # Some(token)
  THEN { Some(AUTH_TOKEN_REDEMPTION_INVALID_TOKEN) }
  ELSE LET redeemed == fields.RedeemedAt # Unset
           expired == Age(fields, t) > ValidForMins
       IN  IF ~redeemed /\ ~expired THEN { Unset }
           ELSE { Some(AUTH_TOKEN_REDEMPTION_TOKEN_REDEEMED) : x \in { y \in {1} : redeemed } }
                \cup { Some(AUTH_TOKEN_REDEMPTION_TOKEN_EXPIRED) : x \in { y \in {1} : expired } }

\* markRedeemed leaving the record as it was
markRedeemed_Forgets(st, listKey, id, tokenType, t) == st

\* the record after a successful redemption
markRedeemed(st, listKey, id, tokenType, t) ==
  [st EXCEPT ![listKey] =
     [i \in DOMAIN @ |->
        IF @[i].id = id
        THEN [@[i] EXCEPT !.tokens[tokenType].RedeemedAt = Some(toISOString(t))]
        ELSE @[i]]]

\* a token of the type is presented for the record of an identity
RedeemToken(p, tokenType, identity, token, outcome) ==
  /\ Free(p)
  /\ LET items == find(store[cfg.listKey], identity)
     IN  /\ Len(items) = 1
         /\ outcome \in RedemptionOutcomes(items[1].tokens[tokenType], token, now)
         /\ req' = [req EXCEPT ![p] =
                      [IdleReq EXCEPT !.op = "redeem", !.pc = "done",
                                      !.tokenType = tokenType, !.identity = identity,
                                      !.items = items, !.token = Some(token), !.at = now,
                                      !.result = Some(IF outcome = Unset
                                                      THEN TokenSuccessResult(items[1].id, token)
                                                      ELSE TokenFailureResult(outcome))]]
         /\ store' = IF outcome = Unset
                     THEN markRedeemed(store, cfg.listKey, items[1].id, tokenType, now)
                     ELSE store
  /\ UNCHANGED <<cfg, now>>

\* the tokens generateToken can return for the sampled draws
Tokens == { generateToken(bytes, TokenLength) : bytes \in randomBytes(TokenLength) }

RedemptionCodes ==
  { Unset, Some(AUTH_TOKEN_REDEMPTION_INVALID_TOKEN),
    Some(AUTH_TOKEN_REDEMPTION_TOKEN_EXPIRED), Some(AUTH_TOKEN_REDEMPTION_TOKEN_REDEEMED) }

InitToken ==
  /\ cfg \in Configs
  /\ store = InitStore("string")
  /\ now = 0
  /\ req = [p \in Reqs |-> IdleReq]

NextToken ==
  \/ \E p \in FirstReq :
       \/ \E tokenType \in TokenTypes, identity \in TokenIdentities, answered \in BOOLEAN,
             bytes \in randomBytes(TokenLength) :
            SendLookup(p, tokenType, identity, answered, bytes)
       \/ \E errors \in BOOLEAN : SendWrite(p, errors)
       \/ \E rejected \in BOOLEAN : SendDeliver(p, rejected)
       \/ \E tokenType \in TokenTypes, identity \in TokenIdentities, token \in Tokens,
             outcome \in RedemptionCodes :
            RedeemToken(p, tokenType, identity, token, outcome)
  \/ Tick

SpecToken == InitToken /\ [][NextToken]_vars

(***************************************************************************)
(* The two mutations side by side: every request is an authentication or   *)
(* a token issuance, on the storage the issuances before it left.          *)
(***************************************************************************)
NextIssue ==
  \E p \in FirstReq :
    \/ \E tokenType \in TokenTypes, identity \in TokenIdentities, answered \in BOOLEAN,
          bytes \in randomBytes(TokenLength) :
         SendLookup(p, tokenType, identity, answered, bytes)
    \/ \E errors \in BOOLEAN : SendWrite(p, errors)
    \/ \E rejected \in BOOLEAN : SendDeliver(p, rejected)

NextRequests == NextAuth \/ NextIssue

SpecRequests == InitToken /\ [][NextRequests]_vars

(***************************************************************************)
(* Two send mutations in flight at once: each slot runs one request, and   *)
(* their awaits interleave in every order.                                 *)
(***************************************************************************)
NextRace ==
  \E p \in Reqs :
    \/ /\ req[p].pc = "idle"
       /\ \E tokenType \in TokenTypes, identity \in TokenIdentities, answered \in BOOLEAN,
             bytes \in randomBytes(TokenLength) :
            SendLookup(p, tokenType, identity, answered, bytes)
    \/ \E errors \in BOOLEAN : SendWrite(p, errors)
    \/ \E rejected \in BOOLEAN : SendDeliver(p, rejected)

SpecRace == InitToken /\ [][NextRace]_vars

(***************************************************************************)
(* generateToken on its own: calls with lengths up to MaxGenLen over every *)
(* sequence of the sampled bytes, and with the issuer's length over the    *)
(* constant sequences.  Byte 255 encodes to '/' only.                      *)
(***************************************************************************)
MaxGenLen == 4
GenByteSamples == {0, 251, 255}

GenDraws ==
  UNION { [1..n -> GenByteSamples] : n \in 0..MaxGenLen }
    \cup { [i \in 1..TokenLength |-> b] : b \in GenByteSamples }

\* a call generateToken(Len(bytes)) whose randomBytes returned these bytes
GenerateToken(p, bytes) ==
  /\ Free(p)
  /\ req' = [req EXCEPT ![p] =
               [IdleReq EXCEPT !.op = "generateToken", !.pc = "done", !.bytes = bytes,
                               !.token = Some(generateToken(bytes, Len(bytes)))]]
  /\ UNCHANGED <<cfg, store, now>>

NextGen == \E p \in FirstReq, bytes \in GenDraws : GenerateToken(p, bytes)

SpecGen == InitToken /\ [][NextGen]_vars

(***************************************************************************)
(* Properties of the authenticator (SpecAuth).                             *)
(***************************************************************************)
\* the rows of the configured list that carry the identity of request p
Matched(p) ==
  { i \in DOMAIN store[cfg.listKey] : store[cfg.listKey][i].identity = req[p].identity }

TheMatched(p) == store[cfg.listKey][CHOOSE i \in Matched(p) : TRUE]

\* attemptAuthentication of request p has returned
Attempted(p) == req[p].op = "authenticate" /\ req[p].result # Unset

\* request p matched one row, whose secret is the hash of the supplied plaintext
UniqueAndCorrect(p) ==
  /\ Cardinality(Matched(p)) = 1
  /\ TheMatched(p).secret # Unset
  /\ TheMatched(p).secret[1].hashOf = req[p].secret

\* attemptAuthentication returned Failure with this code
FailedWith(p, code) ==
  /\ ~req[p].result[1].success
  /\ req[p].result[1].code = Some(code)
  /\ req[p].result[1].item = Unset

\* C1: attemptAuthentication returns Success if and only if the lookup found
\* exactly one record, its secret is set and the supplied plaintext compares
\* equal to it, and the item of the Success is that record, whatever
\* protectIdentities is.
C1_SuccessIffUniqueCorrect ==
  \A p \in Reqs :
    Attempted(p) =>
      /\ req[p].result[1].success <=> UniqueAndCorrect(p)
      /\ req[p].result[1].success =>
           /\ req[p].result[1].item = Some(TheMatched(p))
           /\ req[p].result[1].item[1].id = TheMatched(p).id

C1_Witness ==
  \E p \in Reqs :
    /\ Attempted(p) /\ req[p].result[1].success
    /\ cfg.protectIdentities
    /\ req[p].compares = 1

\* C2: one record matched, its secret is set and the supplied secret does not
\* compare equal: Failure(PASSWORD_AUTH_SECRET_MISMATCH) without
\* protectIdentities, Failure(PASSWORD_AUTH_FAILURE) with it.
C2_MismatchCode ==
  \A p \in Reqs :
    ( /\ Attempted(p)
      /\ Cardinality(Matched(p)) = 1
      /\ TheMatched(p).secret # Unset
      /\ TheMatched(p).secret[1].hashOf # req[p].secret )
    => FailedWith(p, IF cfg.protectIdentities
                     THEN PASSWORD_AUTH_FAILURE
                     ELSE PASSWORD_AUTH_SECRET_MISMATCH)

C2_Witness ==
  \E p \in Reqs :
    /\ Attempted(p)
    /\ Cardinality(Matched(p)) = 1
    /\ TheMatched(p).secret # Unset
    /\ TheMatched(p).secret[1].hashOf # req[p].secret
    /\ ~cfg.protectIdentities
    /\ FailedWith(p, PASSWORD_AUTH_SECRET_MISMATCH)

\* C3: no record matched: Failure(PASSWORD_AUTH_IDENTITY_NOT_FOUND); two or
\* more matched, whatever their secrets:
\* Failure(PASSWORD_AUTH_MULTIPLE_IDENTITY_MATCHES); with protectIdentities
\* both are Failure(PASSWORD_AUTH_FAILURE).
C3_ZeroOrManyCode ==
  \A p \in Reqs :
    (req[p].op = "authenticate" /\ req[p].pc = "done" /\ ~req[p].raised) =>
      /\ Cardinality(Matched(p)) = 0 =>
           FailedWith(p, IF cfg.protectIdentities
                         THEN PASSWORD_AUTH_FAILURE
                         ELSE PASSWORD_AUTH_IDENTITY_NOT_FOUND)
      /\ Cardinality(Matched(p)) >= 2 =>
           FailedWith(p, IF cfg.protectIdentities
                         THEN PASSWORD_AUTH_FAILURE
                         ELSE PASSWORD_AUTH_MULTIPLE_IDENTITY_MATCHES)

C3_Witness ==
  \E p \in Reqs :
    /\ req[p].op = "authenticate" /\ req[p].pc = "done" /\ ~req[p].raised
    /\ Cardinality(Matched(p)) >= 2
    /\ \E i, j \in Matched(p) :
         store[cfg.listKey][i].secret # Unset /\ store[cfg.listKey][j].secret = Unset
    /\ ~cfg.protectIdentities
    /\ FailedWith(p, PASSWORD_AUTH_MULTIPLE_IDENTITY_MATCHES)

\* C4: one record matched and its secret is unset:
\* Failure(PASSWORD_AUTH_SECRET_NOT_SET), or Failure(PASSWORD_AUTH_FAILURE)
\* with protectIdentities, and the comparison is never invoked, whatever
\* plaintext was supplied.
C4_SecretNotSet ==
  \A p \in Reqs :
    ( /\ req[p].op = "authenticate" /\ ~req[p].raised
      /\ Cardinality(Matched(p)) = 1
      /\ TheMatched(p).secret = Unset )
    => /\ req[p].compares = 0
       /\ req[p].pc # "compare"
       /\ req[p].pc = "done" =>
            FailedWith(p, IF cfg.protectIdentities
                          THEN PASSWORD_AUTH_FAILURE
                          ELSE PASSWORD_AUTH_SECRET_NOT_SET)

C4_Witness ==
  \E p \in Reqs :
    /\ req[p].op = "authenticate" /\ req[p].pc = "done" /\ ~req[p].raised
    /\ Cardinality(Matched(p)) = 1
    /\ TheMatched(p).secret = Unset
    /\ req[p].secret = "correct"
    /\ cfg.protectIdentities
    /\ FailedWith(p, PASSWORD_AUTH_FAILURE)


(***************************************************************************)
(* Properties of the token issuer and redeemer (SpecToken).                *)
(***************************************************************************)
\* request p is a send mutation whose lookup returned
Looked(p) == req[p].op = "sendLink" /\ ~(req[p].pc = "done" /\ req[p].result = Unset)

\* the step in which the mutation of request p completes without errors
WriteOkStep(p) ==
  req[p].op = "sendLink" /\ req[p].pc = "write" /\ req'[p].pc = "send"

\* the token fields of type T of the row with this id, in a list
StoredFields(st, listKey, id, T) ==
  LET i == CHOOSE j \in DOMAIN st[listKey] : st[listKey][j].id = id
  IN  st[listKey][i].tokens[T]

\* C5: issueToken, for either token type, on an identity matching no record
\* or several: Failure with AUTH_TOKEN_REQUEST_IDENTITY_NOT_FOUND or
\* AUTH_TOKEN_REQUEST_MULTIPLE_IDENTITY_MATCHES, or Failure with no code under
\* protectIdentities; no record is written and sendToken is not invoked.
C5_IdentityFailures ==
  /\ [](\A p \in Reqs :
          (Looked(p) /\ Cardinality(Matched(p)) # 1) =>
            /\ req[p].pc = "done"
            /\ req[p].result # Unset
            /\ ~req[p].result[1].success
            /\ req[p].result[1].token = Unset
            /\ req[p].result[1].code =
                 IF cfg.protectIdentities THEN Unset
                 ELSE IF Cardinality(Matched(p)) = 0
                      THEN Some(AUTH_TOKEN_REQUEST_IDENTITY_NOT_FOUND)
                      ELSE Some(AUTH_TOKEN_REQUEST_MULTIPLE_IDENTITY_MATCHES)
            /\ req[p].writes = << >>
            /\ req[p].sent = << >>)
  /\ [][\A p \in Reqs :
          (req'[p] # req[p] /\ req'[p].op = "sendLink"
             /\ Cardinality({ i \in DOMAIN store[cfg.listKey] :
                               store[cfg.listKey][i].identity = req'[p].identity }) # 1)
          => store' = store]_vars

C5_Witness ==
  \E p \in Reqs :
    /\ Looked(p) /\ Cardinality(Matched(p)) > 1
    /\ req[p].tokenType = "magicAuth"
    /\ cfg.protectIdentities
    /\ req[p].result = Some(TokenFailureResult(Unset))

\* C6: when issueToken for type T finds one record and the write succeeds,
\* the matched record of the configured list ends with TToken the returned
\* token, TIssuedAt the time of the request and TRedeemedAt unset, and
\* nothing else in storage changes.
C6_WriteOnConfiguredList ==
  [][\A p \in Reqs :
       WriteOkStep(p) =>
         store' =
           [store EXCEPT ![cfg.listKey] =
              [i \in DOMAIN @ |->
                 IF @[i].id = TheMatched(p).id
                 THEN [@[i] EXCEPT !.tokens[req[p].tokenType] =
                         [Token |-> req'[p].result[1].token,
                          IssuedAt |-> Some(toISOString(req[p].at)),
                          RedeemedAt |-> Unset]]
                 ELSE @[i]]]]_vars

\* C7: for an identity matching one record, sendToken is invoked once per
\* request, after the token write succeeded, with the matched record's id,
\* the requested identity and the persisted token, and the mutation result
\* then has no code; a request whose issuance fails never invokes it.
C7_SendTokenOnceAfterWrite ==
  \A p \in Reqs :
    req[p].op = "sendLink" =>
      LET r == req[p]
          issued == r.result # Unset /\ r.result[1].success
          hasCallback == r.tokenType = "magicAuth" \/ cfg.links
      IN  /\ ~issued => r.sent = << >>
          /\ (issued /\ hasCallback) =>
               /\ Len(r.sent) = 1
               /\ Cardinality(Matched(p)) = 1
               /\ Len(r.writes) = 1 /\ r.writes[1].ok
               /\ r.sent[1] = [itemId |-> TheMatched(p).id, identity |-> r.identity,
                               token |-> r.writes[1].token]
               /\ r.result[1].token = Some(r.sent[1].token)
               /\ r.pc = "send" =>
                    StoredFields(store, r.writes[1].list, r.writes[1].id, r.tokenType).Token
                      = Some(r.sent[1].token)
          /\ (issued /\ r.pc = "done") =>
               (r.payload = Unset \/ r.payload[1].code = Unset)
          /\ (issued /\ r.pc = "done" /\ ~r.raised) => r.payload = Some(EmptyPayload)

C7_Witness ==
  \E p \in Reqs :
    /\ req[p].op = "sendLink" /\ req[p].pc = "done"
    /\ req[p].tokenType = "passwordReset"
    /\ Len(req[p].sent) = 1
    /\ req[p].payload = Some(EmptyPayload)

\* C8: when the token write reports errors, issueToken returns Failure with
\* AUTH_TOKEN_INTERNAL_ERROR and nothing else, sendToken is not invoked and
\* the send mutation returns that code with its message.
C8_WriteErrors ==
  \A p \in Reqs :
    (req[p].op = "sendLink" /\ req[p].writes # << >> /\ ~req[p].writes[1].ok) =>
      /\ req[p].pc = "done" /\ ~req[p].raised
      /\ req[p].result =
           Some([success |-> FALSE, code |-> Some(AUTH_TOKEN_INTERNAL_ERROR),
                 item |-> Unset, itemId |-> Unset, token |-> Unset])
      /\ req[p].sent = << >>
      /\ req[p].payload # Unset
      /\ req[p].payload[1].code = Some("AUTH_TOKEN_INTERNAL_ERROR")
      /\ req[p].payload[1].message =
           Some(<<"An unexpected error condition was encountered while creating or redeeming an auth token">>)
      /\ req[p].payload[1].token = Unset

C8_Witness ==
  \E p \in Reqs :
    /\ req[p].op = "sendLink" /\ req[p].writes # << >> /\ ~req[p].writes[1].ok
    /\ cfg.protectIdentities
    /\ cfg.listKey = "User"
    /\ req[p].payload # Unset


\* C9: after successful issuances of one type for one identity the record
\* stores the token of the latest issuance, with RedeemedAt unset, and the
\* token of the issuance before it is no longer the stored token nor valid.
C9_LatestTokenOnly ==
  [][\A p \in Reqs :
       WriteOkStep(p) =>
         LET T == req[p].tokenType
             old == TheMatched(p).tokens[T]
             new == StoredFields(store', cfg.listKey, TheMatched(p).id, T)
         IN  /\ new.Token = req'[p].result[1].token
             /\ new.RedeemedAt = Unset
             /\ old.Token # Unset =>
                  /\ new.Token # old.Token
                  /\ Unset \notin RedemptionOutcomes(new, old.Token[1], now')]_vars

\* a redemption by request p, of the fields it read
Redeemed(p) == req[p].op = "redeem" /\ req[p].pc = "done"
ReadFields(p) == req[p].items[1].tokens[req[p].tokenType]
TokenMatches(p) == ReadFields(p).Token = req[p].token
TokenAge(p) == req[p].at - ReadFields(p).IssuedAt[1][2]

AlreadyRedeemed(p) == TokenMatches(p) /\ ReadFields(p).RedeemedAt # Unset

Queried(p) == req[p].op = "authenticatedItem" /\ req[p].pc = "done" /\ ~req[p].raised

\* the records the session of request p identifies
SessionRecords(p) ==
  IF req[p].session = Unset THEN <<>>
  ELSE findById(store[req[p].session[1].listKey], req[p].session[1].itemId)

\* C12: authenticatedItem returns the record identified by the session's list
\* key and item id, with the session's list key as its type discriminator,
\* whenever a session exists and the record exists, whether the item id is a
\* string or a number; it returns null exactly when there is no session or no
\* such record.
C12_AuthenticatedItem ==
  \A p \in Reqs :
    Queried(p) =>
      IF SessionRecords(p) # <<>>
      THEN req[p].payload = Some(ItemPayload(SessionRecords(p)[1], req[p].session[1].listKey))
      ELSE req[p].payload = Some(NullItem)


(***************************************************************************)
(* Sessions of the authenticate mutation (SpecAuth).                       *)
(***************************************************************************)
\* an authenticate mutation of slot p that returned
Authenticated(p) == req[p].op = "authenticate" /\ req[p].pc = "done" /\ ~req[p].raised

\* the session the claim expects for the item attemptAuthentication matched
ConfiguredSession(p) == [listKey |-> cfg.listKey, itemId |-> req[p].result[1].item[1].id]

\* C13: the authenticate mutation starts a session exactly when
\* attemptAuthentication succeeds: on success exactly one session, for the
\* configured list key and the matched item's id, whose token is returned with
\* the item; on every failure no session and a Failure payload with code and
\* message.
C13_SessionOnSuccess ==
  \A p \in Reqs :
    /\ (req[p].op = "authenticate" /\ req[p].pc # "done") => req[p].sessions = <<>>
    /\ Authenticated(p) =>
         IF req[p].result[1].success
         THEN /\ req[p].sessions = << ConfiguredSession(p) >>
              /\ req[p].payload =
                   Some(AuthSuccessPayload(startSession(ConfiguredSession(p)), req[p].result[1]))
         ELSE /\ req[p].sessions = <<>>
              /\ req[p].payload[1].typename = Some(ItemAuthenticationWithPasswordFailure)
              /\ req[p].payload[1].code # Unset
              /\ req[p].payload[1].message # Unset


(***************************************************************************)
(* Hash operations of attemptAuthentication (SpecAuth).                    *)
(***************************************************************************)
\* the lookup of request p was classified as an identity failure: zero
\* matches, one match whose secret is unset, or several matches
IdentityFailure(p) ==
  \/ Cardinality(Matched(p)) # 1
  \/ TheMatched(p).secret = Unset

\* C14: before attemptAuthentication returns, the dummy hash has been computed
\* exactly once if protectIdentities is enabled and the lookup was classified
\* as zero matches, unset secret or multiple matches, and not at all
\* otherwise; the real comparison has been made exactly once if exactly one
\* record with a set secret matched, and not at all otherwise.  So with
\* protectIdentities every call makes exactly one hash operation, and without
\* it the identity-failure paths make none.
C14_HashOperations ==
  \A p \in Reqs :
    Attempted(p) =>
      /\ req[p].hashes = IF cfg.protectIdentities /\ IdentityFailure(p) THEN 1 ELSE 0
      /\ req[p].compares = IF IdentityFailure(p) THEN 0 ELSE 1
      /\ cfg.protectIdentities => req[p].hashes + req[p].compares = 1
      /\ (~cfg.protectIdentities /\ IdentityFailure(p)) =>
           req[p].hashes + req[p].compares = 0

C14_Witness ==
  \E p \in Reqs :
    /\ Attempted(p)
    /\ cfg.protectIdentities /\ IdentityFailure(p)
    /\ req[p].hashes = 1 /\ req[p].compares = 0


(***************************************************************************)
(* Identity protection (SpecRequests).  What an operation does is stated   *)
(* from the storage and the inputs alone, without protectIdentities, so    *)
(* two runs that differ only in that setting agree on it.                  *)
(***************************************************************************)
\* updateAuthToken of request p returned
Issued(p) == req[p].op = "sendLink" /\ req[p].result # Unset

\* the one write the storage and the inputs of request p ask for
ExpectedWrite(p, ok) ==
  [list |-> TokenWriteList, id |-> TheMatched(p).id, tokenType |-> req[p].tokenType,
   token |-> req[p].token[1], at |-> req[p].at, ok |-> ok]

\* C15: identity protection changes the detail of a failure, never whether
\* the operation fails: attemptAuthentication and updateAuthToken return
\* Success under a condition on the storage and the inputs that is the same
\* with protectIdentities enabled and disabled, they make the same storage
\* writes, and a failing operation returns a failure to its caller.
C15_ProtectionKeepsOutcome ==
  \A p \in Reqs :
    /\ Attempted(p) =>
         /\ req[p].result[1].success <=> UniqueAndCorrect(p)
         /\ req[p].writes = <<>>
         /\ ~UniqueAndCorrect(p) =>
              /\ req[p].result[1].code # Unset /\ req[p].result[1].item = Unset
              /\ req[p].payload[1].typename = Some(ItemAuthenticationWithPasswordFailure)
    /\ Issued(p) =>
         /\ Cardinality(Matched(p)) # 1 =>
              /\ ~req[p].result[1].success
              /\ req[p].result[1].token = Unset
              /\ req[p].writes = <<>> /\ req[p].sent = <<>>
         /\ Cardinality(Matched(p)) = 1 =>
              \E ok \in BOOLEAN :
                /\ req[p].writes = << ExpectedWrite(p, ok) >>
                /\ req[p].result[1].success <=> ok
                /\ ~ok => req[p].result[1].token = Unset /\ req[p].sent = <<>>

C15_Witness ==
  \E p \in Reqs :
    /\ cfg.protectIdentities
    /\ Issued(p)
    /\ Cardinality(Matched(p)) # 1
    /\ ~req[p].result[1].success /\ req[p].result[1].code = Unset


(***************************************************************************)
(* What the send mutations reveal (SpecToken).                             *)
(***************************************************************************)
\* a send mutation of slot p that returned a payload
Sent(p) == req[p].op = "sendLink" /\ req[p].pc = "done" /\ req[p].payload # Unset

\* the write of request p completed with errors
WriteFailed(p) == req[p].writes # <<>> /\ ~req[p].writes[1].ok

\* C16 as stated: with protectIdentities enabled the payload of
\* sendItemPasswordResetLink and sendItemMagicAuthLink is the same, with no
\* code and no message, whether the identity matches zero, one or several
\* records, also when the token write fails.
C16_PayloadHidesIdentityAsStated ==
  \A p \in Reqs :
    (cfg.protectIdentities /\ Sent(p)) => req[p].payload = Some(EmptyPayload)

\* C16, amended: with protectIdentities enabled every payload the send
\* mutations return is the same, with no code and no message, whether the
\* identity matches zero, one or several records, except when the token write
\* fails: then the payload carries AUTH_TOKEN_INTERNAL_ERROR and its message,
\* which takes an identity that matches exactly one record.
C16_PayloadHidesIdentity ==
  \A p \in Reqs :
    (cfg.protectIdentities /\ Sent(p)) =>
      /\ ~WriteFailed(p) => req[p].payload = Some(EmptyPayload)
      /\ WriteFailed(p) =>
           /\ Cardinality(Matched(p)) = 1
           /\ req[p].payload = Some(FailurePayload(Unset, AUTH_TOKEN_INTERNAL_ERROR))

C16_Witness ==
  \E p \in Reqs :
    /\ cfg.protectIdentities
    /\ Sent(p) /\ Cardinality(Matched(p)) = 1 /\ ~WriteFailed(p)
    /\ req[p].payload = Some(EmptyPayload)


(***************************************************************************)
(* Concurrent issuance (SpecRace).                                         *)
(***************************************************************************)
\* the write of request p has been applied without errors
Wrote(p) == req[p].op = "sendLink" /\ req[p].writes # <<>> /\ req[p].writes[1].ok

\* requests p and q issue a token of the same type for the same identity
SameTarget(p, q) ==
  /\ p # q
  /\ req[p].op = "sendLink" /\ req[q].op = "sendLink"
  /\ req[p].identity = req[q].identity /\ req[p].tokenType = req[q].tokenType

\* C17: two interleaved issuances for the same identity and token type are
\* resolved by last write wins: each whose write is applied returns Success
\* and gives the delivery callback its own token, and when the write of one is
\* applied after the write of the other, the record of the identity stores the
\* token of the later write and the token delivered for the earlier one is not
\* the stored token.
C17_LastWriteWins ==
  /\ [](\A p \in Reqs :
          Wrote(p) =>
            /\ req[p].result[1] = TokenSuccessResult(TheMatched(p).id, req[p].token[1])
            /\ HasSendToken(req[p].tokenType) =>
                 req[p].sent = << [itemId |-> TheMatched(p).id, identity |-> req[p].identity,
                                   token |-> req[p].token[1]] >>)
  /\ [][\A p \in Reqs, q \in Reqs :
          (WriteOkStep(p) /\ SameTarget(p, q) /\ Wrote(q)) =>
            LET stored == StoredFields(store', cfg.listKey, TheMatched(p).id, req[p].tokenType)
            IN  /\ stored.Token = req[p].token
                /\ stored.Token # req[q].token]_vars


(***************************************************************************)
(* Delivery (SpecToken).                                                   *)
(***************************************************************************)
\* the step in which the awaited sendToken of request p settles
DeliveryStep(p) ==
  req[p].op = "sendLink" /\ req[p].pc = "send" /\ req[p].sent # <<>> /\ req'[p].pc = "done"

\* C18: once the token is persisted, the outcome of the sendToken callback,
\* failure included, does not change the mutation's result: the mutation
\* returns the payload with no code and raises nothing, the callback is not
\* called again and the persisted token stays as written.
C18_FireAndForget ==
  [][\A p \in Reqs :
       DeliveryStep(p) =>
         /\ ~req'[p].raised
         /\ req'[p].payload = Some(EmptyPayload)
         /\ req'[p].sent = req[p].sent
         /\ store' = store]_vars


(***************************************************************************)
(* Failure of the identity lookup (SpecRequests).                          *)
(***************************************************************************)
\* a mutation of slot p that ended without attemptAuthentication or
\* updateAuthToken returning: its lookup rejected
LookupFailed(p) ==
  /\ req[p].op \in {"authenticate", "sendLink"}
  /\ req[p].pc = "done" /\ req[p].result = Unset

\* C19: a rejected identity lookup propagates as an unhandled failure in
\* attemptAuthentication and in updateAuthToken: the mutation raises and
\* returns no payload, no result carries a code made from the rejection
\* (AUTH_TOKEN_INTERNAL_ERROR only follows a failed write, and every result
\* follows an answered lookup), the lookup is not repeated, and the request
\* makes no hash operation, token write, session start or delivery call.
C19_LookupFailurePropagates ==
  \A p \in Reqs :
    /\ LookupFailed(p) =>
         /\ req[p].raised /\ req[p].payload = Unset
         /\ req[p].items = <<>> /\ req[p].token = Unset
         /\ req[p].hashes = 0 /\ req[p].compares = 0
         /\ req[p].writes = <<>> /\ req[p].sent = <<>> /\ req[p].sessions = <<>>
    /\ (req[p].op \in {"authenticate", "sendLink"} /\ req[p].result # Unset) =>
         /\ Len(req[p].items) = Cardinality(Matched(p))
         /\ req[p].result[1].code = Some(AUTH_TOKEN_INTERNAL_ERROR) =>
              (req[p].writes # <<>> /\ ~req[p].writes[1].ok)
         /\ req[p].raised => req[p].sent # <<>>

C19_Witness ==
  \E p \in Reqs :
    /\ LookupFailed(p)
    /\ req[p].op = "sendLink" /\ Cardinality(Matched(p)) = 1
    /\ req[p].raised /\ req[p].writes = <<>>


(***************************************************************************)
(* generateToken (SpecGen).                                                *)
(***************************************************************************)
\* the positions of a-z, A-Z and 0-9 in the base64 alphabet
Alphanumerics == 0..61

\* a call of generateToken by slot p
Generated(p) == req[p].op = "generateToken" /\ req[p].pc = "done"

\* C20: generateToken(n) returns a string of the characters a-z, A-Z and 0-9
\* only, of length at most n; the length can be less than n, down to the
\* empty string, because the characters that are not alphanumeric are removed
\* after the base64 text is cut to n.  A token issued with n = 20 has a length
\* between 0 and 20.
C20_TokenShape ==
  \A p \in Reqs :
    Generated(p) =>
      LET token == req[p].token[1]
          n == Len(req[p].bytes)
          cut == Slice(Base64(req[p].bytes), n)
      IN  /\ \A i \in DOMAIN token : token[i] \in Alphanumerics
          /\ Len(token) <= n
          /\ Len(token) = Cardinality({ i \in DOMAIN cut : cut[i] \in Alphanumerics })
          /\ n = TokenLength => Len(token) \in 0..20

C20_Witness ==
  \E p \in Reqs :
    /\ Generated(p)
    /\ Len(req[p].bytes) = TokenLength
    /\ req[p].token = Some(<<>>)

=============================================================================
